---- MODULE Spec2Model ----
(***************************************************************************)
(* Model of the two vSphere command-line tools                             *)
(*   tools/add_ptp_to_vm.py                  (script = "ptp")              *)
(*   tools/add_vmotion_notification_to_vm.py (script = "notif")            *)
(* One behaviour is one run of one of the scripts against a platform       *)
(* (vCenter) whose tasks finish, or do not finish, on their own.           *)
(***************************************************************************)
EXTENDS Integers, Sequences, FiniteSets, TLC

(* ------------------------------ bounds -------------------------------- *)
\* Longest list of names given with -v.
MaxNames == 3
\* wait_for_task's timeout (300 s in the source), in units of one
\* time.sleep(1); scaled down to keep the poll loop short.
Timeout == 1
\* Longest list of names in each of two consecutive runs of the script.
MaxRoundNames == 1
\* Longest container view of the lookup specification.
MaxView == 3

\* The busy loop of the notification script has no bound of its own; the
\* model stops counting its iterations here (past the PTP script's limit).
MaxPolls == Timeout + 2

(* --------------------------- Python values ---------------------------- *)
\* Optional values: None is the empty tuple, a value x is <<x>>.
None == <<>>
Some(x) == <<x>>

(* ----------------------------- platform ------------------------------- *)
\* Names that may be requested; "B" is not in the inventory.
Names == {"A", "B", "C"}
\* The VMs of the inventory, in the enumeration order of the container view.
Inventory == <<"A", "C">>
VMs == {Inventory[i] : i \in DOMAIN Inventory}

PtpKind == "VirtualPrecisionClock"
Disk == [kind |-> "VirtualDisk", key |-> 2000]

\* vim.vm.ConfigSpec: every field unset.
EmptySpec ==
    [deviceChange |-> <<>>,
     vmOpNotificationToAppEnabled |-> None,
     vmOpNotificationTimeout |-> None]

NoTask == [vm |-> "None", op |-> "None", spec |-> EmptySpec, state |-> "none"]

VARIABLES
    \* command line (argparse): which script runs, --read/--enable/--disable,
    \* --timeout (notification script only); what an earlier run of the
    \* script against the same inventory was asked and reported
    script, action, timeout_arg, prev,
    \* platform: per VM its power state, device list and notification
    \* settings; the tasks still running that a timed-out wait left behind
    power, devices, config, outstanding,
    \* platform: the VMs a container view enumerates, in its order; the
    \* container views (how many are open, and the position at which the
    \* last enumeration returned, 0 when it ran to the end)
    inventory, views,
    \* main(): position, the branch taken after the lookup, the session and
    \* its atexit hook, the loop index, the names still to look up, the VMs
    \* found, the names warned about, the buckets, the exit code
    pc, path, session, atexit_handlers, disconnects, idx, vm_names,
    vms_to_process, not_found, results, exit_code,
    \* process_vm(): its locals and return value; for the orchestration under
    \* way also the calls it has made with how each ended (ops), the
    \* messages it has printed (msgs) and the VM as it found it (pre)
    vm, was_powered_on, success, result, ops, msgs, pre,
    \* set_vm_notification_settings(vm, timeout, enabled): its arguments
    call,
    \* the wait loop: the task awaited, the iterations that found it
    \* running, the time.sleep calls it made, the value the wait returned
    task, polls, sleeps, wait_ret

argv == <<script, action, timeout_arg, prev>>
platform == <<power, devices, config, outstanding, inventory, views>>
mainv == <<pc, path, session, atexit_handlers, disconnects, idx, vm_names,
           vms_to_process, not_found, results, exit_code>>
procv == <<vm, was_powered_on, success, result, ops, msgs, pre, call>>
waitv == <<task, polls, sleeps, wait_ret>>
vars == <<argv, platform, mainv, procv, waitv>>

(* ------------------------- pure helper code --------------------------- *)
\* Sequences over S of length 1..n.
SeqsUpTo(S, n) == UNION {[1..k -> S] : k \in 1..n}

\* get_vm_by_name, the loop `for vm in container.view: if vm.name ==
\* vm_name: ... return vm` from position i on: the position at which it
\* returns, 0 when it runs to the end.
RECURSIVE first_match(_, _, _)
first_match(view, vm_name, i) ==
    IF i > Len(view) THEN 0
    ELSE IF view[i] = vm_name THEN i
    ELSE first_match(view, vm_name, i + 1)

\* Variant: the scan keeps the last VM with the name.
get_vm_by_name_last(view, vm_name) ==
    LET hits == {i \in DOMAIN view : view[i] = vm_name}
    IN  IF hits = {} THEN 0 ELSE CHOOSE i \in hits : \A j \in hits : j <= i

\* get_vm_by_name: the position in the view of the VM it returns (the
\* first one with exactly this name), 0 for None.
get_vm_by_name_at(view, vm_name) == first_match(view, vm_name, 1)

\* get_vm_by_name: the first VM of the view with exactly this name, or None.
get_vm_by_name(view, vm_name) ==
    IF get_vm_by_name_at(view, vm_name) = 0 THEN "None"
    ELSE view[get_vm_by_name_at(view, vm_name)]

\* Variant: container.Destroy() is missing before `return vm`.
Destroys_not_when_found(view, vm_name) ==
    IF get_vm_by_name_at(view, vm_name) # 0 THEN 0 ELSE 1

\* get_vm_by_name: the container.Destroy() calls on the path taken, one
\* before `return vm` (line 84), one before `return None` (line 87).
Destroys(view, vm_name) ==
    IF get_vm_by_name_at(view, vm_name) # 0 THEN 1 ELSE 1

\* get_vm_by_name: CreateContainerView, the scan, Destroy.
Enumerated(vw, view, vm_name) ==
    [open |-> vw.open + 1 - Destroys(view, vm_name),
     found_at |-> get_vm_by_name_at(view, vm_name)]

\* The indices of the precision-clock devices in a device list.
PtpIndices(devs) == {i \in DOMAIN devs : devs[i].kind = PtpKind}

\* Variant: only the first device of the list is looked at.
has_ptp_device_first_only(devs) == devs # <<>> /\ devs[1].kind = PtpKind

\* Variant: the isinstance test is lost, any device counts.
has_ptp_device_any_kind(devs) == devs # <<>>

\* has_ptp_device: scan of vm.config.hardware.device.
has_ptp_device(devs) == PtpIndices(devs) # {}

\* Variant: the isinstance test is lost, the first device is returned.
get_ptp_device_first_device(devs) ==
    IF devs = <<>> THEN None ELSE Some(devs[1])

\* get_ptp_device: the first precision-clock device, or None.
get_ptp_device(devs) ==
    IF PtpIndices(devs) = {} THEN None
    ELSE Some(devs[CHOOSE i \in PtpIndices(devs) :
                     \A j \in PtpIndices(devs) : i <= j])

\* add_ptp_device: the ConfigSpec it builds (one add, key -1 = auto-assign).
AddSpec ==
    [EmptySpec EXCEPT !.deviceChange =
        <<[operation |-> "add", device |-> [kind |-> PtpKind, key |-> -1]]>>]

\* remove_ptp_device: the ConfigSpec it builds for the device found.
RemoveSpec(dev) ==
    [EmptySpec EXCEPT !.deviceChange =
        <<[operation |-> "remove", device |-> dev]>>]

\* Variant: an argument left out is sent as a default value.
SettingsSpec_defaults(timeout, enabled) ==
    [EmptySpec EXCEPT
        !.vmOpNotificationToAppEnabled =
            IF enabled # None THEN enabled ELSE Some(FALSE),
        !.vmOpNotificationTimeout = IF timeout # None THEN timeout ELSE Some(0)]

\* set_vm_notification_settings: the ConfigSpec it builds; a field is
\* assigned only when its argument is not None.
SettingsSpec(timeout, enabled) ==
    [EmptySpec EXCEPT
        !.vmOpNotificationToAppEnabled = IF enabled # None THEN enabled ELSE @,
        !.vmOpNotificationTimeout = IF timeout # None THEN timeout ELSE @]

\* Variant: only --enable reaches the write.
NotifBranch_enable_only(act) == IF act = "enable" THEN "write" ELSE "read"

\* Variant: the settings are written whatever the action is.
NotifBranch_always_write(act) == "write"

\* process_vm (notification script), lines 117 / 125: `if args.read:` shows
\* the settings, `else:` writes them; nothing else is tested.
NotifBranch(act) == IF act = "read" THEN "read" ELSE "write"

\* process_vm (notification script): enabled from --enable / --disable.
EnabledArg(act) ==
    IF act = "enable" THEN Some(TRUE)
    ELSE IF act = "disable" THEN Some(FALSE)
    ELSE None

\* The name a recording platform gives to a call.
OpLabel(op, spec) ==
    IF op = "PowerOffVM_Task" THEN "power-off"
    ELSE IF op = "PowerOnVM_Task" THEN "power-on"
    ELSE IF spec.deviceChange = <<>> THEN "reconfig-settings"
    ELSE IF spec.deviceChange[1].operation = "add" THEN "reconfig-add"
    ELSE "reconfig-remove"

\* wait_for_task, line 107: the loop body ends with time.sleep(1).
PollSleeps == 1

\* set_vm_notification_settings, line 90: the loop body is `pass`.
SpinSleeps == 0

\* Variant: the comparison is the wrong way round.
TimedOut_inverted(n) == n <= Timeout

\* wait_for_task, line 104: time.time() - start_time > timeout, after
\* `n` sleeps of one second each.
TimedOut(n) == n > Timeout

\* Variant: only an error counts as failure once the loop has ended.
TaskResult_not_error(state) == state # "error"

\* Variant: any terminal state counts as success once the loop has ended.
TaskResult_any_terminal(state) == state \in {"success", "error"}

\* The value a wait returns for the task state it saw last: True only for
\* success; error, a timeout (still running) and a raised call give False.
TaskResult(state) == state = "success"

\* Variant: the comparison is made against poweredOff.
NeedsPowerOff_inverted(power_state) == power_state = "poweredOff"

\* process_vm, lines 316 / 349: a power-off / power-on bracket is needed.
NeedsPowerOff(power_state) == power_state = "poweredOn"

\* process_vm, lines 327 / 360: power the VM back on after the edit.
PowerOnAfterEdit(was_on, ok) == was_on /\ ok

\* Python's True / False / None as returned by process_vm.
PyBool(b) == IF b THEN "True" ELSE "False"

\* Variant: the `return False` after a failed power-off is missing.
AfterPowerOff_no_return(ok) == "edit"

\* process_vm, lines 318-321 / 351-354: where it goes after power_off_vm
\* returned ok: on to the edit, or `return False`.
AfterPowerOff(ok) == IF ok THEN "edit" ELSE "classify"

\* Variant: the `return False` after a failed power-on is missing.
AfterPowerOn_ignored(ok, succ) == succ

\* process_vm, lines 329-333 / 362-366: its return value after power_on_vm
\* returned ok, the edit having returned succ.
AfterPowerOn(ok, succ) == IF ok THEN succ ELSE "False"

\* Variant: `if result:` ... `else:` failed; the None case is not told apart.
Bucket_truthy(scr, res) == IF res = "True" THEN "success" ELSE "failed"

\* main: the bucket a process_vm return value goes to.
Bucket(scr, res) ==
    IF scr = "ptp"
    THEN IF res = "True" THEN "success"
         ELSE IF res = "None" THEN "skipped"
         ELSE "failed"
    ELSE IF res = "True" THEN "success" ELSE "failed"

\* Variant: the exit code does not look at the failed bucket.
ExitCode_always_zero(res) == 0

\* main: the exit code after the summary.
ExitCode(res) == IF res.failed # <<>> THEN 1 ELSE 0

\* Variant: the result of connect() is not tested.
AfterConnect_ignored(ok) == "lookup"

\* main, lines 505-507 (notification script: the try block, lines 229-243
\* and 332-334): on to the lookup, or sys.exit(1).
AfterConnect(ok) == IF ok THEN "lookup" ELSE "exit"

\* Variant: the teardown is not registered.
atexit_register_missing(handlers) == handlers

\* atexit.register(Disconnect, si): one more handler to run at exit.
atexit_register(handlers) == handlers + 1

(* --------------------- platform: effect of a task --------------------- *)
Keys(devs) == {devs[i].key : i \in DOMAIN devs}

\* The key the platform assigns to an added precision clock.
NewKey(devs) ==
    CHOOSE k \in 19000..(19000 + Len(devs)) :
        /\ k \notin Keys(devs)
        /\ \A j \in 19000..(19000 + Len(devs)) : j \notin Keys(devs) => k <= j

ApplyDeviceChange(devs, changes) ==
    IF changes = <<>> THEN devs
    ELSE IF changes[1].operation = "add"
    THEN Append(devs, [kind |-> changes[1].device.kind, key |-> NewKey(devs)])
    ELSE SelectSeq(devs, LAMBDA d : d.key # changes[1].device.key)

ApplyFields(cfg, spec) ==
    [vmOpNotificationToAppEnabled |->
        IF spec.vmOpNotificationToAppEnabled # None
        THEN spec.vmOpNotificationToAppEnabled
        ELSE cfg.vmOpNotificationToAppEnabled,
     vmOpNotificationTimeout |->
        IF spec.vmOpNotificationTimeout # None
        THEN spec.vmOpNotificationTimeout
        ELSE cfg.vmOpNotificationTimeout]

\* The VM is (still) in the inventory.
InInventory(v) == \E i \in DOMAIN inventory : inventory[i] = v

\* A task can only succeed while its VM exists, a removal only while the
\* device it names is still there.
CanSucceed(t) ==
    IF ~InInventory(t.vm) THEN FALSE
    ELSE IF t.op # "ReconfigVM_Task" THEN TRUE
    ELSE IF t.spec.deviceChange = <<>> THEN TRUE
    ELSE IF t.spec.deviceChange[1].operation = "add" THEN TRUE
    ELSE t.spec.deviceChange[1].device.key \in Keys(devices[t.vm])

\* The platform state after task t succeeded.
Applied(t) ==
    /\ power' = IF t.op = "PowerOffVM_Task"
                THEN [power EXCEPT ![t.vm] = "poweredOff"]
                ELSE IF t.op = "PowerOnVM_Task"
                THEN [power EXCEPT ![t.vm] = "poweredOn"]
                ELSE power
    /\ devices' = IF t.op = "ReconfigVM_Task"
                  THEN [devices EXCEPT
                          ![t.vm] = ApplyDeviceChange(@, t.spec.deviceChange)]
                  ELSE devices
    /\ config' = IF t.op = "ReconfigVM_Task"
                 THEN [config EXCEPT ![t.vm] = ApplyFields(@, t.spec)]
                 ELSE config

(* ------------------------------- Init --------------------------------- *)
PtpDevice == [kind |-> PtpKind, key |-> 19000]
Unset == [vmOpNotificationToAppEnabled |-> None, vmOpNotificationTimeout |-> None]
Settings ==
    [vmOpNotificationToAppEnabled : {None, Some(TRUE)},
     vmOpNotificationTimeout : {None, Some(600)}]
NoResults == [success |-> <<>>, failed |-> <<>>, skipped |-> <<>>]
NoPre == [power |-> "None", devices |-> <<>>, config |-> Unset]
NoCall == [timeout |-> None, enabled |-> None]
NoViews == [open |-> 0, found_at |-> 0]
\* No earlier run.
NoPrev == [action |-> "None", vms_to_process |-> <<>>, results |-> NoResults]

\* The command line, as argparse accepts it, and the inventory the run
\* meets.  The PTP script has no --timeout and never reads the notification
\* fields; the notification script requires --timeout with --enable (line
\* 208), ignores it with --read, and never reads power state or devices.
\* --dry-run and --no-confirm are read once, after the lookup (see Check).
Init ==
    /\ script \in {"ptp", "notif"}
    /\ action \in {"read", "enable", "disable"}
    /\ vm_names \in SeqsUpTo(Names, MaxNames)
    /\ timeout_arg \in {None, Some(600)}
    /\ script = "ptp" => timeout_arg = None
    /\ (script = "notif" /\ action = "enable") => timeout_arg # None
    /\ action = "read" => timeout_arg = None
    /\ prev = NoPrev
    /\ power \in [VMs -> {"poweredOn", "poweredOff"}]
    /\ devices \in [VMs -> {<<Disk>>, <<Disk, PtpDevice>>}]
    /\ config \in [VMs -> Settings]
    /\ script = "ptp" => config = [v \in VMs |-> Unset]
    /\ script = "notif" => /\ power = [v \in VMs |-> "poweredOn"]
                           /\ devices = [v \in VMs |-> <<Disk>>]
    /\ outstanding = <<>>
    /\ inventory = Inventory
    /\ views = NoViews
    /\ pc = "connect"
    /\ path = "none"
    /\ session = "none"
    /\ atexit_handlers = 0
    /\ disconnects = 0
    /\ idx = 1
    /\ vms_to_process = <<>>
    /\ not_found = {}
    /\ results = NoResults
    /\ exit_code = -1
    /\ vm = "None"
    /\ was_powered_on = FALSE
    /\ success = "None"
    /\ result = "None"
    /\ ops = <<>>
    /\ msgs = {}
    /\ pre = NoPre
    /\ call = NoCall
    /\ task = NoTask
    /\ polls = 0
    /\ sleeps = 0
    /\ wait_ret = "None"

(* --------------------------- shared fragments ------------------------- *)
WaitPcs == {"power_off_wait", "edit_wait", "power_on_wait"}
Terminal == {"success", "error"}

\* How a wait ended: the terminal state seen, "raised" when the *_Task call
\* itself threw (caught by the caller's except), "timeout" otherwise.
Outcome(t) == IF t.state \in Terminal \cup {"raised"} THEN t.state ELSE "timeout"

\* The VM as the orchestration found it.
Snapshot(v) == [power |-> power[v], devices |-> devices[v], config |-> config[v]]

\* vm.<op>(spec) is called: the call is recorded, and either a task starts
\* running on the platform or the call raises.
Begin(v, op, spec, waitpc, log) ==
    \E raised \in BOOLEAN :
        /\ task' = [vm |-> v, op |-> op, spec |-> spec,
                    state |-> IF raised THEN "raised" ELSE "running"]
        /\ polls' = 0
        /\ sleeps' = 0
        /\ wait_ret' = "None"
        /\ ops' = Append(log, [op |-> OpLabel(op, spec), res |-> "pending"])
        /\ pc' = waitpc

\* process_vm returns r without having called the platform.
ReturnAtOnce(r, m) ==
    /\ result' = r
    /\ msgs' = m
    /\ was_powered_on' = FALSE
    /\ success' = "None"
    /\ ops' = <<>>
    /\ pc' = "classify"
    /\ UNCHANGED waitv

\* Variant: a failed edit is tried again.
AfterEdit_retry(was_on, ok) ==
    /\ success' = PyBool(ok)
    /\ IF ~ok
       THEN pc' = "edit" /\ result' = "None"
       ELSE IF was_on
       THEN pc' = "power_on" /\ result' = "None"
       ELSE pc' = "classify" /\ result' = "True"

\* process_vm, lines 324-333 / 357-366: the edit returned ok.
AfterEdit(was_on, ok) ==
    /\ success' = PyBool(ok)
    /\ IF PowerOnAfterEdit(was_on, ok)
       THEN pc' = "power_on" /\ result' = "None"
       ELSE pc' = "classify" /\ result' = PyBool(ok)

\* add_ptp_device(vm) / remove_ptp_device(vm) up to the wait; m are the
\* messages printed so far.
EditCall(v, was_on, log, m) ==
    IF action = "enable"
    THEN /\ Begin(v, "ReconfigVM_Task", AddSpec, "edit_wait", log)
         /\ msgs' = m
         /\ success' = "None"
         /\ result' = "None"
    ELSE IF get_ptp_device(devices[v]) = None
    THEN /\ msgs' = m \cup {"no_ptp_device_found"}
         /\ ops' = log
         /\ AfterEdit(was_on, FALSE)
         /\ UNCHANGED waitv
    ELSE /\ Begin(v, "ReconfigVM_Task",
                  RemoveSpec(get_ptp_device(devices[v])[1]), "edit_wait", log)
         /\ msgs' = m
         /\ success' = "None"
         /\ result' = "None"

(* ------------------------------- main --------------------------------- *)
\* SmartConnect and atexit.register(Disconnect); a failure exits with 1.
Connect ==
    /\ pc = "connect"
    /\ \E ok \in BOOLEAN :
        /\ pc' = AfterConnect(ok)
        /\ IF ok
           THEN /\ session' = "open"
                /\ atexit_handlers' = atexit_register(atexit_handlers)
                /\ exit_code' = exit_code
           ELSE /\ exit_code' = 1
                /\ UNCHANGED <<session, atexit_handlers>>
    /\ UNCHANGED <<argv, platform, procv, waitv, path, disconnects, idx,
                   vm_names, vms_to_process, not_found, results>>

\* One iteration of the lookup loop; vm_names holds the names the loop
\* has still to visit.
Lookup ==
    /\ pc = "lookup"
    /\ vm_names # <<>>
    /\ views' = Enumerated(views, inventory, Head(vm_names))
    /\ LET found == get_vm_by_name(inventory, Head(vm_names))
       IN  IF found # "None"
           THEN /\ vms_to_process' = Append(vms_to_process, found)
                /\ not_found' = not_found
           ELSE /\ not_found' = not_found \cup {Head(vm_names)}
                /\ vms_to_process' = vms_to_process
    /\ vm_names' = Tail(vm_names)
    /\ UNCHANGED <<argv, power, devices, config, outstanding, inventory,
                   procv, waitv, pc, path, session,
                   atexit_handlers, disconnects, idx, results, exit_code>>

\* After the lookup: nothing to process, dry run, confirmation, or the batch.
Check ==
    /\ pc = "lookup"
    /\ vm_names = <<>>
    /\ \E dry_run \in BOOLEAN, no_confirm \in BOOLEAN :
        IF vms_to_process = <<>>
        THEN pc' = "exit" /\ exit_code' = 0 /\ path' = "no_vms"
        ELSE IF dry_run
        THEN pc' = "exit" /\ exit_code' = 0 /\ path' = "dry_run"
        ELSE IF ~no_confirm /\ action # "read"
        THEN pc' = "confirm" /\ exit_code' = exit_code /\ path' = path
        ELSE pc' = "batch" /\ exit_code' = exit_code /\ path' = "batch"
    /\ UNCHANGED <<argv, platform, procv, waitv, session, atexit_handlers,
                   disconnects, idx, vm_names, vms_to_process, not_found,
                   results>>

\* input("Continue with processing? (yes/no): ")
Confirm ==
    /\ pc = "confirm"
    /\ \E yes \in BOOLEAN :
        IF yes
        THEN pc' = "batch" /\ exit_code' = exit_code /\ path' = "batch"
        ELSE pc' = "exit" /\ exit_code' = 0 /\ path' = "declined"
    /\ UNCHANGED <<argv, platform, procv, waitv, session, atexit_handlers,
                   disconnects, idx, vm_names, vms_to_process, not_found,
                   results>>

\* main's loop body after process_vm returned: the name goes to a bucket.
Classify ==
    /\ pc = "classify"
    /\ results' = [results EXCEPT
                     ![Bucket(script, result)] = Append(@, vms_to_process[idx])]
    /\ idx' = idx + 1
    /\ pc' = "batch"
    /\ vm' = "None"
    /\ was_powered_on' = FALSE
    /\ success' = "None"
    /\ result' = "None"
    /\ ops' = <<>>
    /\ msgs' = {}
    /\ pre' = NoPre
    /\ call' = NoCall
    /\ task' = NoTask
    /\ polls' = 0
    /\ sleeps' = 0
    /\ wait_ret' = "None"
    /\ UNCHANGED <<argv, platform, path, session, atexit_handlers,
                   disconnects, vm_names, vms_to_process, not_found, exit_code>>

\* The summary and sys.exit(1 if results['failed'] else 0).
Summary ==
    /\ pc = "batch"
    /\ idx > Len(vms_to_process)
    /\ exit_code' = ExitCode(results)
    /\ pc' = "exit"
    /\ UNCHANGED <<argv, platform, procv, waitv, path, session,
                   atexit_handlers, disconnects, idx, vm_names, vms_to_process,
                   not_found, results>>

\* Interpreter exit: the registered atexit handlers (Disconnect) run.
AtExit ==
    /\ pc = "exit"
    /\ disconnects' = disconnects + atexit_handlers
    /\ session' = IF atexit_handlers > 0 THEN "closed" ELSE session
    /\ pc' = "done"
    /\ UNCHANGED <<argv, platform, procv, waitv, path, atexit_handlers, idx,
                   vm_names, vms_to_process, not_found, results, exit_code>>

\* An exception that nothing in the loop catches, raised by a call to the
\* server (the lookup, the start of process_vm) or by input(): the
\* notification script's `except Exception` prints it and calls
\* sys.exit(1); the PTP script has no handler and the interpreter ends
\* with a traceback and status 1.
Unexpected ==
    /\ \/ pc = "lookup" /\ vm_names # <<>>
       \/ pc = "confirm"
       \/ pc = "batch" /\ idx <= Len(vms_to_process)
    /\ exit_code' = 1
    /\ path' = "error"
    /\ pc' = "exit"
    /\ UNCHANGED <<argv, platform, procv, waitv, session, atexit_handlers,
                   disconnects, idx, vm_names, vms_to_process, not_found,
                   results>>

(* --------------------- add_ptp_to_vm.py: process_vm ------------------- *)
\* process_vm up to its first platform call (or its return).
PtpStart ==
    /\ pc = "batch"
    /\ script = "ptp"
    /\ idx <= Len(vms_to_process)
    /\ views' = Enumerated(views, inventory, vms_to_process[idx])
    /\ LET v == get_vm_by_name(inventory, vms_to_process[idx])
       IN  /\ vm' = v
           /\ pre' = IF v = "None" THEN NoPre ELSE Snapshot(v)
           /\ IF v = "None" THEN ReturnAtOnce("False", {"not_found"})
              ELSE IF action = "read" THEN ReturnAtOnce("True", {"status"})
              ELSE IF action = "enable" /\ has_ptp_device(devices[v])
              THEN ReturnAtOnce("None", {"skip"})
              ELSE IF action = "disable" /\ ~has_ptp_device(devices[v])
              THEN ReturnAtOnce("None", {"skip"})
              ELSE /\ was_powered_on' = NeedsPowerOff(power[v])
                   /\ IF NeedsPowerOff(power[v])
                      THEN /\ Begin(v, "PowerOffVM_Task", EmptySpec,
                                    "power_off_wait", <<>>)
                           /\ msgs' = {}
                           /\ success' = "None"
                           /\ result' = "None"
                      ELSE EditCall(v, FALSE, <<>>, {})
    /\ UNCHANGED <<argv, power, devices, config, outstanding, inventory,
                   path, session, atexit_handlers, disconnects, idx, vm_names, vms_to_process, not_found,
                   results, exit_code, call>>

\* After the settle delay: add_ptp_device / remove_ptp_device is called.
PtpEdit ==
    /\ pc = "edit"
    /\ EditCall(vm, was_powered_on, ops, msgs)
    /\ UNCHANGED <<argv, platform, path, session, atexit_handlers,
                   disconnects, idx, vm_names, vms_to_process, not_found,
                   results, exit_code, vm, was_powered_on, pre, call>>

\* After the pause that follows a successful edit: power_on_vm is called.
PtpPowerOn ==
    /\ pc = "power_on"
    /\ Begin(vm, "PowerOnVM_Task", EmptySpec, "power_on_wait", ops)
    /\ UNCHANGED <<argv, platform, path, session, atexit_handlers,
                   disconnects, idx, vm_names, vms_to_process, not_found,
                   results, exit_code, vm, was_powered_on, success, result,
                   msgs, pre, call>>

\* wait_for_task: the task is still running and the time is not up: sleep(1).
PtpPoll ==
    /\ script = "ptp"
    /\ pc \in WaitPcs
    /\ task.state = "running"
    /\ ~TimedOut(polls)
    /\ polls' = polls + 1
    /\ sleeps' = sleeps + PollSleeps
    /\ UNCHANGED <<argv, platform, mainv, procv, task, wait_ret>>

\* wait_for_task returns (or the call had raised) and the caller goes on to
\* its next platform call or to its return.
PtpReturn ==
    /\ script = "ptp"
    /\ pc \in WaitPcs
    /\ task.state \in Terminal \cup {"raised"} \/ TimedOut(polls)
    /\ ops' = [ops EXCEPT ![Len(ops)].res = Outcome(task)]
    /\ outstanding' = IF task.state = "running"
                      THEN Append(outstanding, task) ELSE outstanding
    /\ task' = IF task.state = "running"
               THEN [task EXCEPT !.state = "abandoned"] ELSE task
    /\ wait_ret' = IF task.state = "raised" THEN "None"
                   ELSE PyBool(TaskResult(task.state))
    /\ LET ok == TaskResult(task.state)
           said == IF Outcome(task) = "timeout" THEN {"task_timed_out"}
                   ELSE IF Outcome(task) = "error" THEN {"task_failed"}
                   ELSE IF Outcome(task) = "raised" THEN {"error_raised"}
                   ELSE {}
       IN  IF pc = "power_off_wait"
           THEN /\ msgs' = msgs \cup said
                /\ success' = success
                /\ pc' = AfterPowerOff(ok)
                /\ result' = IF AfterPowerOff(ok) = "classify"
                             THEN "False" ELSE result
           ELSE IF pc = "edit_wait"
           THEN /\ msgs' = msgs \cup said \cup
                       (IF Outcome(task) \in {"error", "timeout"}
                        THEN {"edit_failed"} ELSE {})
                /\ AfterEdit(was_powered_on, ok)
           ELSE /\ msgs' = msgs \cup said \cup
                       (IF ok THEN {} ELSE {"WARNING_power_on"})
                /\ success' = success
                /\ pc' = "classify"
                /\ result' = AfterPowerOn(ok, success)
    /\ UNCHANGED <<argv, power, devices, config, inventory, views, path,
                   session,
                   atexit_handlers, disconnects, idx, vm_names, vms_to_process,
                   not_found, results, exit_code, vm, was_powered_on, pre,
                   call, polls, sleeps>>

(* -------------- add_vmotion_notification_to_vm.py: process_vm --------- *)
\* process_vm up to its call of set_vm_notification_settings (or, for
\* --read, its return).
NotifStart ==
    /\ pc = "batch"
    /\ script = "notif"
    /\ idx <= Len(vms_to_process)
    /\ vm' = vms_to_process[idx]
    /\ pre' = Snapshot(vms_to_process[idx])
    /\ IF NotifBranch(action) = "read"
       THEN ReturnAtOnce("True", {"settings"}) /\ call' = call
       ELSE /\ call' = [timeout |-> timeout_arg, enabled |-> EnabledArg(action)]
            /\ pc' = "set_settings"
            /\ UNCHANGED <<was_powered_on, success, result, ops, msgs, waitv>>
    /\ UNCHANGED <<argv, platform, path, session, atexit_handlers,
                   disconnects, idx, vm_names, vms_to_process, not_found,
                   results, exit_code>>

\* set_vm_notification_settings: the spec is built and ReconfigVM_Task called.
NotifSet ==
    /\ pc = "set_settings"
    /\ Begin(vm, "ReconfigVM_Task", SettingsSpec(call.timeout, call.enabled),
             "edit_wait", <<>>)
    /\ UNCHANGED <<argv, platform, path, session, atexit_handlers,
                   disconnects, idx, vm_names, vms_to_process, not_found,
                   results, exit_code, vm, was_powered_on, success, result,
                   msgs, pre, call>>

\* set_vm_notification_settings: `while task.info.state not in [...]: pass`,
\* one more iteration that finds the task running.
NotifPoll ==
    /\ script = "notif"
    /\ pc \in WaitPcs
    /\ task.state = "running"
    /\ polls < MaxPolls
    /\ polls' = polls + 1
    /\ sleeps' = sleeps + SpinSleeps
    /\ UNCHANGED <<argv, platform, mainv, procv, task, wait_ret>>

\* The loop saw a terminal state (or the call had raised): both
\* set_vm_notification_settings and process_vm return.
NotifReturn ==
    /\ script = "notif"
    /\ pc \in WaitPcs
    /\ task.state \in Terminal \cup {"raised"}
    /\ ops' = [ops EXCEPT ![Len(ops)].res = Outcome(task)]
    /\ wait_ret' = IF task.state = "raised" THEN "None"
                   ELSE PyBool(TaskResult(task.state))
    /\ LET ok == TaskResult(task.state)
       IN  /\ success' = PyBool(ok)
           /\ result' = PyBool(ok)
           /\ msgs' = msgs \cup (IF ok THEN {"updated"} ELSE {"update_failed"})
    /\ pc' = "classify"
    /\ UNCHANGED <<argv, platform, path, session, atexit_handlers,
                   disconnects, idx, vm_names, vms_to_process, not_found,
                   results, exit_code, vm, was_powered_on, pre, call, task,
                   polls, sleeps>>

(* ------------------------------ platform ------------------------------ *)
\* The task being awaited reaches a terminal state.
TaskFinish ==
    /\ task.state = "running"
    /\ \E ok \in BOOLEAN :
        /\ ok => CanSucceed(task)
        /\ task' = [task EXCEPT !.state = IF ok THEN "success" ELSE "error"]
        /\ IF ok THEN Applied(task) ELSE UNCHANGED <<power, devices, config>>
    /\ UNCHANGED <<argv, mainv, procv, outstanding, inventory, views, polls,
                   sleeps, wait_ret>>

\* A task left behind by a timed-out wait reaches a terminal state.
OutstandingFinish ==
    /\ \E i \in DOMAIN outstanding : \E ok \in BOOLEAN :
        /\ ok => CanSucceed(outstanding[i])
        /\ outstanding' = [j \in 1..(Len(outstanding) - 1) |->
                             IF j < i THEN outstanding[j] ELSE outstanding[j + 1]]
        /\ IF ok THEN Applied(outstanding[i])
                 ELSE UNCHANGED <<power, devices, config>>
    /\ UNCHANGED <<argv, mainv, procv, waitv, inventory, views>>

Next ==
    \/ Connect
    \/ Lookup
    \/ Check
    \/ Confirm
    \/ Classify
    \/ Summary
    \/ AtExit
    \/ Unexpected
    \/ PtpStart
    \/ PtpEdit
    \/ PtpPowerOn
    \/ PtpPoll
    \/ PtpReturn
    \/ NotifStart
    \/ NotifSet
    \/ NotifPoll
    \/ NotifReturn
    \/ TaskFinish
    \/ OutstandingFinish

Spec == Init /\ [][Next]_vars

(* ---------------- the inventory changes under the run ----------------- *)
\* Someone else deletes the VM that is next in the batch: found by the
\* lookup, it is gone when its orchestration starts.
Vanish ==
    /\ pc = "batch"
    /\ idx <= Len(vms_to_process)
    /\ InInventory(vms_to_process[idx])
    /\ inventory' = SelectSeq(inventory, LAMBDA x : x # vms_to_process[idx])
    /\ UNCHANGED <<argv, power, devices, config, outstanding, views, mainv,
                   procv, waitv>>

\* main's loop body after process_vm returned, the VM being gone: the VM
\* object main holds is stale, and reading vm.name from it for the bucket
\* may raise instead of returning the name (Classify is the other
\* outcome).  Nothing catches the exception in the PTP script; the
\* notification script's `except Exception` calls sys.exit(1).
StaleName ==
    /\ pc = "classify"
    /\ ~InInventory(vms_to_process[idx])
    /\ exit_code' = 1
    /\ path' = "error"
    /\ pc' = "exit"
    /\ UNCHANGED <<argv, platform, procv, waitv, session, atexit_handlers,
                   disconnects, idx, vm_names, vms_to_process, not_found,
                   results>>

GoneNext ==
    \/ Connect
    \/ Lookup
    \/ Check
    \/ Confirm
    \/ Classify
    \/ Summary
    \/ AtExit
    \/ Unexpected
    \/ PtpStart
    \/ PtpEdit
    \/ PtpPowerOn
    \/ PtpPoll
    \/ PtpReturn
    \/ NotifStart
    \/ NotifSet
    \/ NotifPoll
    \/ NotifReturn
    \/ TaskFinish
    \/ OutstandingFinish
    \/ Vanish
    \/ StaleName

GoneSpec == Init /\ [][GoneNext]_vars

(* ------------------- get_vm_by_name over any inventory ---------------- *)
\* The lookup loop of main() run against every container view of up to
\* MaxView VMs, VMs of the same name included: the session is open, the
\* names of the command line are still to be looked up.
LocatorInit ==
    /\ script \in {"ptp", "notif"}
    /\ action = "read"
    /\ vm_names \in SeqsUpTo(Names, MaxNames - 1)
    /\ timeout_arg = None
    /\ prev = NoPrev
    /\ power = [v \in VMs |-> "poweredOn"]
    /\ devices = [v \in VMs |-> <<Disk>>]
    /\ config = [v \in VMs |-> Unset]
    /\ outstanding = <<>>
    /\ inventory \in SeqsUpTo(Names, MaxView)
    /\ views = NoViews
    /\ pc = AfterConnect(TRUE)
    /\ path = "none"
    /\ session = "open"
    /\ atexit_handlers = atexit_register(0)
    /\ disconnects = 0
    /\ idx = 1
    /\ vms_to_process = <<>>
    /\ not_found = {}
    /\ results = NoResults
    /\ exit_code = -1
    /\ vm = "None"
    /\ was_powered_on = FALSE
    /\ success = "None"
    /\ result = "None"
    /\ ops = <<>>
    /\ msgs = {}
    /\ pre = NoPre
    /\ call = NoCall
    /\ task = NoTask
    /\ polls = 0
    /\ sleeps = 0
    /\ wait_ret = "None"

LocatorNext == Lookup

LocatorSpec == LocatorInit /\ [][LocatorNext]_vars

(* ------------------- the script keeps taking its steps ---------------- *)
\* The steps of the script itself: a sequential process that, left
\* running, executes its next statement.  The platform owes nothing (a
\* task may stay in state running for ever), and nothing obliges an
\* unexpected error to happen.
Prog ==
    \/ Connect
    \/ Lookup
    \/ Check
    \/ Confirm
    \/ Classify
    \/ Summary
    \/ AtExit
    \/ PtpStart
    \/ PtpEdit
    \/ PtpPowerOn
    \/ PtpPoll
    \/ PtpReturn
    \/ NotifStart
    \/ NotifSet
    \/ NotifPoll
    \/ NotifReturn

FairSpec == Spec /\ WF_vars(Prog)

(* ------------- the PTP script run twice on the same inventory -------- *)
\* The first run meets VMs without a precision clock, "A" powered off.
RoundInit ==
    /\ Init
    /\ script = "ptp"
    /\ Len(vm_names) <= MaxRoundNames
    /\ devices = [v \in VMs |-> <<Disk>>]
    /\ power["A"] = "poweredOff"

\* The process has ended and the script is started again, with another
\* command line, against the inventory as the first run left it (tasks
\* still outstanding included).
Rerun ==
    /\ pc = "done"
    /\ prev = NoPrev
    /\ prev' = [action |-> action, vms_to_process |-> vms_to_process,
                results |-> results]
    /\ action' \in {"read", "enable", "disable"}
    /\ vm_names' \in SeqsUpTo(Names, MaxRoundNames)
    /\ pc' = "connect"
    /\ path' = "none"
    /\ session' = "none"
    /\ atexit_handlers' = 0
    /\ disconnects' = 0
    /\ idx' = 1
    /\ vms_to_process' = <<>>
    /\ not_found' = {}
    /\ results' = NoResults
    /\ exit_code' = -1
    /\ UNCHANGED <<script, timeout_arg, platform, procv, waitv>>

RoundNext ==
    \/ Connect
    \/ Lookup
    \/ Check
    \/ Confirm
    \/ Classify
    \/ Summary
    \/ AtExit
    \/ Unexpected
    \/ PtpStart
    \/ PtpEdit
    \/ PtpPowerOn
    \/ PtpPoll
    \/ PtpReturn
    \/ TaskFinish
    \/ OutstandingFinish
    \/ Rerun

RoundSpec == RoundInit /\ [][RoundNext]_vars

(* ------- set_vm_notification_settings called with any arguments ------- *)
\* The function is entered for a VM of the inventory with every
\* combination of timeout and enabled, None included; through main only
\* the combinations that argparse lets through occur.
WriteInit ==
    /\ script = "notif"
    /\ action = "disable"
    /\ timeout_arg = None
    /\ prev = NoPrev
    /\ vm_names = <<>>
    /\ power = [v \in VMs |-> "poweredOn"]
    /\ devices = [v \in VMs |-> <<Disk>>]
    /\ config \in [VMs -> [vmOpNotificationToAppEnabled :
                              {None, Some(TRUE), Some(FALSE)},
                           vmOpNotificationTimeout : {None, Some(600)}]]
    /\ outstanding = <<>>
    /\ inventory = Inventory
    /\ views = NoViews
    /\ pc = "set_settings"
    /\ path = "batch"
    /\ session = "open"
    /\ atexit_handlers = 1
    /\ disconnects = 0
    /\ idx = 1
    /\ vm \in VMs
    /\ vms_to_process = <<vm>>
    /\ not_found = {}
    /\ results = NoResults
    /\ exit_code = -1
    /\ was_powered_on = FALSE
    /\ success = "None"
    /\ result = "None"
    /\ ops = <<>>
    /\ msgs = {}
    /\ pre = Snapshot(vm)
    /\ call \in [timeout : {None, Some(30), Some(600)},
                 enabled : {None, Some(TRUE), Some(FALSE)}]
    /\ task = NoTask
    /\ polls = 0
    /\ sleeps = 0
    /\ wait_ret = "None"

WriteNext ==
    \/ NotifSet
    \/ NotifPoll
    \/ NotifReturn
    \/ TaskFinish

WriteSpec == WriteInit /\ [][WriteNext]_vars

TypeOK ==
    /\ pc \in {"connect", "lookup", "confirm", "batch", "set_settings", "power_off_wait",
               "edit", "edit_wait", "power_on", "power_on_wait", "classify",
               "exit", "done"}
    /\ result \in {"True", "False", "None"}
    /\ polls \in 0..MaxPolls

(* ============================== claims ================================ *)
OpNames == [i \in DOMAIN ops |-> ops[i].op]
AllSucceeded == \A i \in DOMAIN ops : ops[i].res = "success"
Failures == {"error", "timeout", "raised"}
\* The VM carried a precision clock when the orchestration found it.
HadPtp == \E i \in DOMAIN pre.devices : pre.devices[i].kind = PtpKind
\* A PTP orchestration that found its VM is under way or has just returned.
InPtpRun == script = "ptp" /\ pre # NoPre

\* C1: enable on a VM without a precision clock, every platform task
\* succeeding: the operations issued for the VM are exactly power-off,
\* reconfig-add, power-on when the VM was powered on at the start, and
\* exactly reconfig-add (no power operation) when it was not.
C1_EnableSequence ==
    (InPtpRun /\ action = "enable" /\ ~HadPtp /\ pc = "classify"
        /\ AllSucceeded)
    => /\ result = "True"
       /\ OpNames = IF pre.power = "poweredOn"
                    THEN <<"power-off", "reconfig-add", "power-on">>
                    ELSE <<"reconfig-add">>

C1_Witness ==
    /\ InPtpRun /\ action = "enable" /\ ~HadPtp /\ pc = "classify"
    /\ pre.power = "poweredOn"
    /\ AllSucceeded
    /\ OpNames = <<"power-off", "reconfig-add", "power-on">>
    /\ result = "True"

\* C2: enable on a VM that already carries a precision clock returns Skip
\* (None) at once: no reconfiguration request and no power operation is
\* issued, whatever the power state.
C2_EnableSkips ==
    (InPtpRun /\ action = "enable" /\ HadPtp)
    => /\ pc = "classify"
       /\ result = "None"
       /\ Bucket(script, result) = "skipped"
       /\ ops = <<>>
       /\ task = NoTask

C2_Witness ==
    /\ InPtpRun /\ action = "enable" /\ HadPtp
    /\ pre.power = "poweredOn"
    /\ pc = "classify" /\ result = "None" /\ ops = <<>>

\* C3: disable on a VM without a precision clock returns Skip (None) at
\* once: no reconfiguration request and no power operation is issued,
\* whatever the power state.
C3_DisableSkips ==
    (InPtpRun /\ action = "disable" /\ ~HadPtp)
    => /\ pc = "classify"
       /\ result = "None"
       /\ Bucket(script, result) = "skipped"
       /\ ops = <<>>
       /\ task = NoTask

C3_Witness ==
    /\ InPtpRun /\ action = "disable" /\ ~HadPtp
    /\ pre.power = "poweredOn"
    /\ pc = "classify" /\ result = "None" /\ ops = <<>>

\* C4: when the power-off of a powered-on VM fails (task error, timeout or
\* the call raising), process_vm returns False and neither a
\* reconfiguration request nor a power-on is issued in that orchestration.
C4_PowerOffFailure ==
    (script = "ptp" /\ ops # <<>> /\ ops[1].op = "power-off"
        /\ ops[1].res \in Failures)
    => /\ pc = "classify"
       /\ result = "False"
       /\ OpNames = <<"power-off">>

C4_Witness ==
    /\ script = "ptp" /\ pre.power = "poweredOn"
    /\ ops = <<[op |-> "power-off", res |-> "timeout"]>>
    /\ pc = "classify" /\ result = "False"

Edits == {"reconfig-add", "reconfig-remove"}

\* C5: when the edit fails on a VM that this orchestration powered off, a
\* power-on is still issued for the VM, and process_vm returns False.
C5_PowerOnAfterFailedEdit ==
    (script = "ptp" /\ pc = "classify" /\ Len(ops) >= 2
        /\ ops[1] = [op |-> "power-off", res |-> "success"]
        /\ ops[2].op \in Edits /\ ops[2].res \in Failures)
    => /\ \E i \in DOMAIN ops : ops[i].op = "power-on"
       /\ result = "False"

\* C6: when the edit succeeds and the power-on that follows fails,
\* process_vm returns False, issues nothing after the power-on (the device
\* change stays applied) and prints the power-on warning; that warning is
\* printed in no other case, in particular not when the edit failed.
C6_PowerOnFailure ==
    /\ (script = "ptp" /\ Len(ops) = 3 /\ ops[2].res = "success"
            /\ ops[3].res \in Failures)
       => /\ pc = "classify"
          /\ result = "False"
          /\ "WARNING_power_on" \in msgs
          /\ ops[1].op = "power-off" /\ ops[2].op \in Edits
          /\ ops[3].op = "power-on"
          /\ action = "enable" => PtpIndices(devices[vm]) # {}
          /\ action = "disable" => PtpIndices(devices[vm]) = {}
    /\ "WARNING_power_on" \in msgs
       => /\ Len(ops) = 3
          /\ ops[2].res = "success"
          /\ ops[3].op = "power-on" /\ ops[3].res \in Failures
    /\ (\E i \in DOMAIN ops : ops[i].op \in Edits /\ ops[i].res \in Failures)
       => "WARNING_power_on" \notin msgs

C6_Witness ==
    /\ script = "ptp" /\ action = "enable" /\ pc = "classify"
    /\ ops = <<[op |-> "power-off", res |-> "success"],
               [op |-> "reconfig-add", res |-> "success"],
               [op |-> "power-on", res |-> "error"]>>
    /\ result = "False"
    /\ "WARNING_power_on" \in msgs
    /\ PtpIndices(devices[vm]) # {}
    /\ power[vm] = "poweredOff"

\* C7: a wait returns True only for a task it saw in state success; for a
\* task that went to error (after any number of polls that found it
\* running) the wait returns False and the orchestration ends in False, in
\* both scripts.
C7_WaitResult ==
    /\ wait_ret # "None" => (wait_ret = "True" <=> task.state = "success")
    /\ (task.state = "error" /\ pc \notin WaitPcs)
       => /\ wait_ret = "False"
          /\ pc = "classify"
          /\ result = "False"

C7_Witness ==
    /\ script = "notif"
    /\ task.state = "error"
    /\ polls >= 2
    /\ wait_ret = "False"
    /\ pc = "classify" /\ result = "False"

\* C8: every wait ends once the timeout has elapsed: a wait that still finds
\* its task running has polled at most Timeout + 1 times before.
C8_WaitTimesOut ==
    (pc \in WaitPcs /\ task.state = "running") => polls <= Timeout + 1

\* C9: the ConfigSpec that set_vm_notification_settings submits has a
\* field set exactly when the argument for it is not None, and names no
\* device; so the field of an argument left out keeps the value the VM had
\* (enabled given, no timeout: the timeout is unchanged; and the reverse),
\* while a field that is given has the given value once the task succeeded.
C9_PartialUpdate ==
    (script = "notif" /\ task.op = "ReconfigVM_Task")
    => /\ task.spec.vmOpNotificationTimeout # None <=> call.timeout # None
       /\ task.spec.vmOpNotificationToAppEnabled # None <=> call.enabled # None
       /\ task.spec.deviceChange = <<>>
       /\ call.timeout = None
          => config[task.vm].vmOpNotificationTimeout
               = pre.config.vmOpNotificationTimeout
       /\ call.enabled = None
          => config[task.vm].vmOpNotificationToAppEnabled
               = pre.config.vmOpNotificationToAppEnabled
       /\ (task.state = "success" /\ call.timeout # None)
          => config[task.vm].vmOpNotificationTimeout = call.timeout
       /\ (task.state = "success" /\ call.enabled # None)
          => config[task.vm].vmOpNotificationToAppEnabled = call.enabled

C9_Witness ==
    /\ script = "notif"
    /\ call = [timeout |-> None, enabled |-> Some(TRUE)]
    /\ pre.config = [vmOpNotificationToAppEnabled |-> Some(FALSE),
                     vmOpNotificationTimeout |-> Some(600)]
    /\ task.state = "success"
    /\ wait_ret = "True"
    /\ config[vm] = [vmOpNotificationToAppEnabled |-> Some(TRUE),
                     vmOpNotificationTimeout |-> Some(600)]

\* C10: a requested name that the lookup did not find is in no bucket, and
\* every VM found is put, when its orchestration returns, in the bucket of
\* its outcome (True: success, None: skipped, False: failed); at the end
\* of the batch every VM found is in a bucket.
BucketNames ==
    {results.success[i] : i \in DOMAIN results.success}
    \cup {results.failed[i] : i \in DOMAIN results.failed}
    \cup {results.skipped[i] : i \in DOMAIN results.skipped}
BucketCount == Len(results.success) + Len(results.failed) + Len(results.skipped)
OutcomeBucket ==
    IF result = "True" THEN "success"
    ELSE IF result = "None" THEN "skipped"
    ELSE "failed"

C10_Inv ==
    /\ BucketNames \cap not_found = {}
    /\ \A n \in not_found : \A i \in DOMAIN vms_to_process : vms_to_process[i] # n
    /\ pc \in {"batch", "set_settings", "edit", "power_on", "classify"} \cup WaitPcs
       => BucketCount = idx - 1
    /\ (path = "batch" /\ pc \in {"exit", "done"})
       => BucketCount = Len(vms_to_process)

C10_Step ==
    results' # results
    => /\ pc = "classify"
       /\ results' = [results EXCEPT
                        ![OutcomeBucket] = Append(@, vms_to_process[idx])]

C10_Buckets == []C10_Inv /\ [][C10_Step]_vars

C10_Witness ==
    /\ pc = "done"
    /\ script = "ptp" /\ action = "enable"
    /\ not_found = {"B"}
    /\ vms_to_process = <<"A", "C">>
    /\ results = [success |-> <<"A">>, failed |-> <<"C">>, skipped |-> <<>>]
    /\ exit_code = 1

\* The process has ended, or is about to, after a successful connection.
EndedConnected == pc \in {"exit", "done"} /\ session # "none"

\* C11 (as stated): after a successful connection the exit code is 1 if
\* and only if at least one VM ended in the failed bucket.
C11_ExitCodeIff ==
    EndedConnected => (exit_code = 1 <=> results.failed # <<>>)

\* C11 (amended): a run that ends through the summary or through one of
\* the early exits (no VM found, dry run, confirmation declined) has exit
\* code 1 if and only if at least one VM ended in the failed bucket, and 0
\* in particular when no requested name resolved to a VM; a run ended by
\* an unexpected error after connecting has exit code 1 whatever the
\* buckets hold.
C11_ExitCode ==
    EndedConnected
    => /\ exit_code \in {0, 1}
       /\ path # "error" => (exit_code = 1 <=> results.failed # <<>>)
       /\ path = "error" => exit_code = 1
       /\ path \in {"no_vms", "dry_run", "declined"}
          => exit_code = 0 /\ results = NoResults
       /\ path = "no_vms" <=> (vms_to_process = <<>> /\ path # "error")

C11_Witness ==
    /\ pc = "done" /\ session = "closed"
    /\ path = "batch"
    /\ results.success # <<>> /\ results.skipped # <<>>
    /\ Len(results.failed) = 1
    /\ exit_code = 1

\* C12: whatever orchestrations are applied to a VM that starts with at
\* most one precision clock, tasks that fail or time out included, the
\* VM's device list never holds more than one precision clock.
C12_AtMostOnePtp ==
    \A v \in VMs : Cardinality(PtpIndices(devices[v])) <= 1

Count(seq, x) == Cardinality({i \in DOMAIN seq : seq[i] = x})
InSeq(seq, x) == \E i \in DOMAIN seq : seq[i] = x
PowerOps == {"power-off", "power-on"}

\* An enable run that orchestrated "A" once and reported it successful is
\* followed by a disable run that orchestrates "A" once.
RoundCase ==
    /\ prev.action = "enable" /\ action = "disable"
    /\ Count(prev.vms_to_process, "A") = 1
    /\ InSeq(prev.results.success, "A")
    /\ Count(vms_to_process, "A") = 1

\* C13: on the powered-off VM "A", which starts without a precision
\* clock, a successful enable followed by a successful disable leaves the
\* device list as it was at the start (the disk only, no precision
\* clock); the disable, its task succeeding, issues the removal only and
\* reports success, and no orchestration of the VM issues a power
\* operation.
C13_RoundTrip ==
    /\ (script = "ptp" /\ vm = "A")
       => \A i \in DOMAIN ops : ops[i].op \notin PowerOps
    /\ (RoundCase /\ pc = "classify" /\ vm = "A" /\ ops # <<>>
            /\ AllSucceeded)
       => /\ result = "True"
          /\ OpNames = <<"reconfig-remove">>
          /\ devices["A"] = <<Disk>>
    /\ (RoundCase /\ pc = "done" /\ InSeq(results.success, "A"))
       => /\ devices["A"] = <<Disk>>
          /\ ~has_ptp_device(devices["A"])
          /\ power["A"] = "poweredOff"

C13_Witness ==
    /\ RoundCase
    /\ pc = "done"
    /\ prev.results.success = <<"A">>
    /\ results.success = <<"A">>
    /\ devices["A"] = <<Disk>>
    /\ power["A"] = "poweredOff"

\* C14: a failure of one VM (power-off failure, edit failure, task
\* timeout, power-on failure) never aborts the batch: in both scripts,
\* once the batch has started, every VM found by the lookup is
\* orchestrated and ends in a bucket, whatever happened to the VMs
\* before it (a run cut short by an unexpected error aside).
C14_BatchCompletes ==
    (path = "batch") ~> (path = "error" \/ BucketCount = Len(vms_to_process))

\* C15: when the connection fails the run ends before the batch: no
\* lookup has been made, no power operation and no reconfiguration has
\* been issued, no teardown is registered, and the exit code is 1.
C15_ConnectFailure ==
    (pc # "connect" /\ session = "none")
    => /\ pc \in {"exit", "done"}
       /\ exit_code = 1
       /\ vm_names # <<>> /\ vms_to_process = <<>> /\ not_found = {}
       /\ ops = <<>> /\ task = NoTask /\ outstanding = <<>>
       /\ atexit_handlers = 0 /\ disconnects = 0
       /\ path = "none" /\ results = NoResults

C15_Witness ==
    /\ pc = "done" /\ session = "none"
    /\ exit_code = 1
    /\ Len(vm_names) = 2
    /\ atexit_handlers = 0 /\ disconnects = 0

ExitPaths == {"no_vms", "dry_run", "declined", "batch", "error"}

\* C16: in a run whose connection succeeded the session is released
\* (Disconnect called) exactly once, at process exit and not before, on
\* every exit path: no VM found, dry run, confirmation declined, the batch
\* finished with or without failures, an unexpected error after connecting.
C16_ReleasedOnce ==
    /\ session = "open"
       => atexit_handlers = 1 /\ disconnects = 0 /\ pc \notin {"connect", "done"}
    /\ session = "closed" => pc = "done" /\ disconnects = 1 /\ path \in ExitPaths
    /\ pc = "done" => session \in {"none", "closed"}
    /\ pc = "exit" => (session = "none" <=> path = "none")

C16_Witness ==
    /\ pc = "done" /\ session = "closed"
    /\ path = "error"
    /\ vms_to_process # <<>>
    /\ disconnects = 1

\* C17: at the end of a run no VM name occurs more than once across the
\* success, failed and skipped buckets, whatever the list of names (a list
\* naming the same VM twice included).
C17_OneOutcomePerName ==
    pc \in {"exit", "done"}
    => \A n \in Names :
         Count(results.success, n) + Count(results.failed, n)
           + Count(results.skipped, n) <= 1

\* C18: the notification script has no idempotency gate: with --enable or
\* --disable every VM processed gets exactly one reconfiguration request,
\* whatever its settings are (also when they already equal the requested
\* ones), and its outcome is success or failed, never skipped.
C18_NoGate ==
    /\ script = "notif" => results.skipped = <<>>
    /\ (script = "notif" /\ action # "read" /\ pc = "classify")
       => /\ OpNames = <<"reconfig-settings">>
          /\ ops[1].res # "pending"
          /\ task.vm = vm /\ task.op = "ReconfigVM_Task"
          /\ result \in {"True", "False"}
          /\ Bucket(script, result) \in {"success", "failed"}

C18_Witness ==
    /\ script = "notif" /\ action = "enable" /\ pc = "classify"
    /\ pre.config = [vmOpNotificationToAppEnabled |-> Some(TRUE),
                     vmOpNotificationTimeout |-> Some(600)]
    /\ call = [timeout |-> Some(600), enabled |-> Some(TRUE)]
    /\ ops = <<[op |-> "reconfig-settings", res |-> "success"]>>
    /\ result = "True"

OpKind(label) == IF label \in PowerOps THEN label ELSE "reconfig"

\* C19: no retries: within one orchestration each of power-off,
\* reconfiguration and power-on is submitted at most once, whatever fails;
\* once process_vm has returned (done, skip or failed) nothing more is
\* submitted for that orchestration.
C19_Inv ==
    /\ Len(ops) <= 3
    /\ \A i, j \in DOMAIN ops : i # j => OpKind(ops[i].op) # OpKind(ops[j].op)

C19_Step ==
    /\ pc = "classify"
       => pc' \in {"classify", "batch", "exit"} /\ ops' \in {ops, <<>>}
    /\ pc = "classify" => task' \in {task, NoTask}

C19_NoRetries == []C19_Inv /\ [][C19_Step]_vars

C19_Witness ==
    /\ script = "ptp" /\ action = "disable" /\ pc = "classify"
    /\ ops = <<[op |-> "power-off", res |-> "success"],
               [op |-> "reconfig-remove", res |-> "error"]>>
    /\ result = "False"

\* The tasks issued by the run that are still running on the platform.
RunningCount == (IF task.state = "running" THEN 1 ELSE 0) + Len(outstanding)

C20_Inv ==
    /\ task.state = "running" => pc \in WaitPcs
    /\ pc \in WaitPcs => task.vm = vm /\ vm = vms_to_process[idx]
    /\ script = "notif" => outstanding = <<>>

C20_Step ==
    /\ (task' # task /\ task'.state \in {"running", "raised"})
       => /\ pc \notin WaitPcs
          /\ task.state # "running"
          /\ pc' \in WaitPcs
    /\ outstanding' # outstanding
       => \/ /\ outstanding' = Append(outstanding, task)
             /\ script = "ptp" /\ pc \in WaitPcs
             /\ task.state = "running" /\ polls > Timeout
          \/ Len(outstanding') = Len(outstanding) - 1
    /\ idx' # idx => pc = "classify" /\ idx' = idx + 1

HadTimeout == \E i \in DOMAIN ops : ops[i].res = "timeout"

\* C21: when a wait times out, the task is left outstanding on the
\* platform (nothing cancels it: it stays there until it ends by itself)
\* and the outcome of the orchestration is Failed, never Success or
\* Skipped, also when the outstanding task later succeeds on the platform.
C21_Inv ==
    (pc = "classify" /\ HadTimeout)
    => /\ script = "ptp"
       /\ ops[Len(ops)].res = "timeout"
       /\ task.state = "abandoned"
       /\ wait_ret = "False"
       /\ result = "False"
       /\ Bucket(script, result) = "failed"

C21_Step ==
    /\ (pc \in WaitPcs /\ task.state = "running" /\ pc' \notin WaitPcs)
       => outstanding' = Append(outstanding, task)
    /\ Len(outstanding') < Len(outstanding)
       => /\ \E i \in DOMAIN outstanding :
               outstanding' = [j \in 1..(Len(outstanding) - 1) |->
                                IF j < i THEN outstanding[j]
                                ELSE outstanding[j + 1]]
          /\ result' = result /\ results' = results /\ pc' = pc
    /\ (pc = "classify" /\ HadTimeout /\ results' # results)
       => results'.failed = Append(results.failed, vms_to_process[idx])
    /\ Len(results'.failed) >= Len(results.failed)

C21_TimeoutFails == []C21_Inv /\ [][C21_Step]_vars

C21_Witness ==
    /\ script = "ptp" /\ action = "enable" /\ pc = "classify"
    /\ ops = <<[op |-> "reconfig-add", res |-> "timeout"]>>
    /\ outstanding = <<>>
    /\ has_ptp_device(devices[vm])
    /\ result = "False"

\* C22: every wait loop sleeps between polls, in both scripts: each
\* iteration that read the task's state and found it running has slept
\* before the state is read again.
C22_SleepBetweenPolls == sleeps = polls

\* C23: get_vm_by_name leaves no container view behind: no view is open
\* once a lookup has returned, whether it found the name or not.
C23_Inv == views.open = 0

\* C23: a lookup returns the first VM of the view, in enumeration order,
\* whose name is exactly the one asked for, and main() queues it; it
\* returns not-found only when no VM of the view has that name, and the
\* name is then reported as not found.
C23_Step ==
    (pc = "lookup" /\ vm_names # <<>> /\ vm_names' = Tail(vm_names)) =>
        LET vm_name == Head(vm_names)
            k == views'.found_at
        IN  /\ \A i \in 1..Len(inventory) :
                (k = 0 \/ i < k) => inventory[i] # vm_name
            /\ k # 0 => /\ inventory[k] = vm_name
                        /\ vms_to_process' = Append(vms_to_process, inventory[k])
                        /\ not_found' = not_found
            /\ k = 0 => /\ vms_to_process' = vms_to_process
                        /\ not_found' = not_found \cup {vm_name}

C24_PowerRestored ==
    (script = "ptp" /\ vm # "None") =>
        /\ (pc = "classify" /\ result = "True") => power[vm] = pre.power
        /\ \A i \in DOMAIN ops :
              ops[i].op = "power-on" =>
                  \E j \in 1..(i - 1) :
                      ops[j] = [op |-> "power-off", res |-> "success"]
        /\ pre.power # "poweredOn" =>
              \A i \in DOMAIN ops : ops[i].op \notin PowerOps

\* C25: in the PTP script a VM that the batch lookup found and that
\* process_vm does not find again gets the result False with no power or
\* reconfiguration operation submitted, and main() files its name in the
\* failed bucket: the result is pending only while main() is at the
\* bucket append, and once main() has left it the name is in `failed`.
C25_NotFoundFails ==
    (script = "ptp" /\ vm = "None" /\ result # "None") =>
        /\ result = "False"
        /\ ops = <<>>
        /\ task = NoTask
        /\ pc # "classify" => InSeq(results.failed, vms_to_process[idx])

\* The runs that must change nothing: --read, a dry run, a declined prompt.
NoChangeRun == action = "read" \/ path \in {"dry_run", "declined"}

\* C26: in both scripts a run with --read, a dry run and a run whose
\* confirmation prompt was declined submit no power-off, power-on or
\* reconfiguration: no operation is logged, no task exists or is left
\* running; a dry run and a declined run do not enter the batch at all.
C26_Inv ==
    /\ NoChangeRun => ops = <<>> /\ task = NoTask /\ outstanding = <<>>
    /\ path \in {"dry_run", "declined"}
       => idx = 1 /\ results = NoResults /\ vm = "None" /\ exit_code = 0

\* C26: no step of such a run changes a VM's power state, devices or settings.
C26_Step == NoChangeRun => UNCHANGED <<power, devices, config>>

C26_NoMutation == []C26_Inv /\ [][C26_Step]_vars

\* C26: a --read run of the notification script over both VMs has ended,
\* both reported successful, nothing submitted.
C26_Witness ==
    /\ script = "notif" /\ action = "read"
    /\ pc = "done"
    /\ results.success = <<"A", "C">>
    /\ ops = <<>> /\ outstanding = <<>>
====
